---- MODULE Spec2Model ----
(***************************************************************************)
(* Low-Pollution Route Optimizer: the Flask backend (app.py), the          *)
(* standalone engine (pollution_engine.py) and the Streamlit front end     *)
(* (frontend.py).                                                          *)
(*                                                                         *)
(* Units.  Coordinates are integers on a grid of GridPerThreshold cells    *)
(* per 0.001 degree (the resolution of sample_route), so that              *)
(* line.length / 0.001 is Length \div GridPerThreshold exactly.  Only      *)
(* polylines whose segments have integral length are drawn.  Interpolated  *)
(* coordinates are exact rationals <<num, den>> in lowest terms.           *)
(* PM2.5 values are integers in hundredths of a microgram, durations are   *)
(* integers in ticks of 1/TicksPerSecond second, distances are metres.     *)
(* Lengths, fractions and means are exact: the rounding error of the      *)
(* floating-point library calls is left out.                               *)
(***************************************************************************)
EXTENDS Integers, Sequences, FiniteSets, TLC

VARIABLES
    csv,              \* rows of "Air View+ Clear Skies Hourly Dataset.csv"
    latest_df,        \* value returned by load_and_prepare_data
    sensor_data,      \* module global sensor_data (app.py:54-55)
    model,            \* the PollutionModel instance: points, values, interpolator
    pollution_model,  \* module global name pollution_model: "unbound" / "bound"
    phase,            \* position of the module's start-up code
    ors_api_key,      \* os.getenv('ORS_API_KEY') is set
    pc,               \* per request thread: position in its handler
    req,              \* per request thread: the query arguments
    features,         \* per request thread: routes_response['features'], None until fetched
    scored_routes,    \* per request thread: scored_routes
    resp,             \* per request thread: the HTTP response
    observed,         \* per request thread: what its predict calls found the model to be
    route_data,       \* front end: st.session_state.route_data
    rendered,         \* front end: what the display section drew
    route_geometry,   \* argument of a direct sample_route call
    sampled_points    \* its outcome

vars == <<csv, latest_df, sensor_data, model, pollution_model, phase, ors_api_key,
          pc, req, features, scored_routes, resp, observed, route_data, rendered,
          route_geometry, sampled_points>>

-----------------------------------------------------------------------------
(* Bounds *)

GridPerThreshold == 2   \* grid cells per 0.001 degree
MaxLon == 4             \* largest grid longitude of a drawn vertex
MaxLat == 3             \* largest grid latitude of a drawn vertex
MaxVertices == 3        \* longest polyline drawn for a direct sample_route call
MaxRows == 2            \* most rows of a drawn dataset
TicksPerSecond == 5     \* duration resolution: ORS reports tenths of a second

(* Program constants *)

SecondsPerMinute == 60
MetresPerKm == 1000
RoundDigitsScale == 100  \* round(x, 2): two decimals

-----------------------------------------------------------------------------
(* Exact arithmetic *)

Abs(x) == IF x < 0 THEN -x ELSE x

RECURSIVE GCD(_, _)
GCD(a, b) == IF b = 0 THEN a ELSE GCD(b, a % b)

\* the rational n/d (d > 0) in lowest terms
Rat(n, d) == LET g == GCD(Abs(n), d) IN <<n \div g, d \div g>>

RatOfInt(k) == <<k, 1>>

\* largest r with r*r <= s
ISqrt(s) == CHOOSE r \in 0..s : r * r <= s /\ (r + 1) * (r + 1) > s

\* round half to even of num/den (den > 0), as Python's and numpy's round do
RoundHalfEven(num, den) ==
    LET q == num \div den
        r == num % den
    IN  IF 2 * r < den THEN q
        ELSE IF 2 * r > den THEN q + 1
        ELSE IF q % 2 = 0 THEN q ELSE q + 1

RECURSIVE SumSeq(_)
SumSeq(s) == IF s = <<>> THEN 0 ELSE Head(s) + SumSeq(Tail(s))

-----------------------------------------------------------------------------
(* shapely: LineString(route_geometry), .length, .interpolate(normalized)   *)
(* A vertex is <<lon, lat>> (x, y), as ORS GeoJSON gives it.                *)

SegLen(a, b) == ISqrt((b[1] - a[1]) * (b[1] - a[1]) + (b[2] - a[2]) * (b[2] - a[2]))

IntegralSeg(a, b) ==
    LET l == SegLen(a, b)
    IN  l * l = (b[1] - a[1]) * (b[1] - a[1]) + (b[2] - a[2]) * (b[2] - a[2])

\* line.length
RECURSIVE LineLength(_)
LineLength(line) ==
    IF Len(line) < 2 THEN 0
    ELSE SegLen(line[1], line[2]) + LineLength(Tail(line))

\* length of the path up to vertex k
CumLength(line, k) == LineLength(SubSeq(line, 1, k))

\* The point of segment k (from vertex k to k+1) at distance (num*L - acc*den)/den
\* from vertex k; the result is <<x, y>> with rational coordinates.
PointInSegment(line, k, acc, num, den, L) ==
    LET a == line[k]
        b == line[k + 1]
        l == SegLen(a, b)
        off == num * L - acc * den
    IN  << Rat(a[1] * den * l + off * (b[1] - a[1]), den * l),
           Rat(a[2] * den * l + off * (b[2] - a[2]), den * l) >>

\* walk the segments accumulating length until the target length num*L/den is
\* passed; past the last segment the end vertex is the answer
RECURSIVE Walk(_, _, _, _, _, _)
Walk(line, k, acc, num, den, L) ==
    IF k >= Len(line)
    THEN <<RatOfInt(line[Len(line)][1]), RatOfInt(line[Len(line)][2])>>
    ELSE LET l == SegLen(line[k], line[k + 1])
         IN  IF (acc + l) * den > num * L
             THEN PointInSegment(line, k, acc, num, den, L)
             ELSE Walk(line, k + 1, acc + l, num, den, L)

\* line.interpolate(num/den, normalized=True), for 0 <= num <= den, den > 0
InterpolateNormalized(line, num, den) == Walk(line, 1, 0, num, den, LineLength(line))

-----------------------------------------------------------------------------
(* app.py: sample_route *)

NumSamples(route) == LineLength(route) \div GridPerThreshold

\* point i of the loop body: (point.y, point.x)
SamplePointMisordered(route, i, n) ==
    LET p == InterpolateNormalized(route, i, n) IN <<p[1], p[2]>>

SamplePoint(route, i, n) ==
    LET p == InterpolateNormalized(route, i, n) IN <<p[2], p[1]>>

\* The outcome of sample_route(route_geometry): the list returned, or the
\* exception that leaves the function.
sample_route(route) ==
    IF Len(route) = 1
    THEN [err |-> "ValueError", pts |-> <<>>]          \* LineString of one coordinate
    ELSE LET n == NumSamples(route)
         IN  IF n = 0
             THEN [err |-> "ZeroDivisionError", pts |-> <<>>]   \* float(0) / 0, i = 0
             ELSE [err |-> "none",
                   pts |-> [j \in 1..(n + 1) |-> SamplePoint(route, j - 1, n)]]

-----------------------------------------------------------------------------
(* Data frames.  A frame is a sequence of rows; a cell that may be missing   *)
(* is <<>> (NaN) or <<v>>.                                                   *)

NaN == <<>>

Stations == {"A", "B"}
Times == {1, 2}
LatCells == {NaN, <<0>>}
LonCells == {<<0>>, <<2>>}
PmCells == {NaN, <<1000>>}

NaNCount(r) ==
    (IF r.latitude = NaN THEN 1 ELSE 0) + (IF r.longitude = NaN THEN 1 ELSE 0)
        + (IF r.PM2_5 = NaN THEN 1 ELSE 0)

\* rows of the CSV file that are drawn: at most one missing cell each
CsvRows ==
    { r \in [station_name : Stations, local_time : Times, latitude : LatCells,
             longitude : LonCells, PM2_5 : PmCells] : NaNCount(r) <= 1 }

RECURSIVE SeqsUpTo(_, _)
SeqsUpTo(S, n) ==
    IF n = 0 THEN {<<>>}
    ELSE LET shorter == SeqsUpTo(S, n - 1)
         IN  shorter \cup { Append(q, x) : q \in { t \in shorter : Len(t) = n - 1 }, x \in S }

\* the subsequence of s at the positions satisfying Keep(_)
RECURSIVE SelectIdx(_, _, _)
SelectIdx(s, Keep(_), i) ==
    IF i > Len(s) THEN <<>>
    ELSE (IF Keep(i) THEN <<s[i]>> ELSE <<>>) \o SelectIdx(s, Keep, i + 1)

IndexPermutations(n) == { f \in [1..n -> 1..n] : \A i, j \in 1..n : f[i] = f[j] => i = j }

\* df.sort_values('local_time'): the default quicksort is not stable, so rows
\* of equal local_time may come out in any order
SortedByTime(df) ==
    { [i \in 1..Len(df) |-> df[f[i]]] : f \in
        { g \in IndexPermutations(Len(df)) :
            \A i, j \in 1..Len(df) : i < j => df[g[i]].local_time <= df[g[j]].local_time } }

\* .drop_duplicates('station_name', keep='last')
DropDuplicatesStation(df) ==
    LET Keep(i) == \A j \in (i + 1)..Len(df) : df[j].station_name # df[i].station_name
    IN  SelectIdx(df, Keep, 1)

\* .rename(columns={'PM2_5': 'PM2.5_corrected'})
Rename(df) ==
    [i \in 1..Len(df) |->
        [station_name |-> df[i].station_name, local_time |-> df[i].local_time,
         latitude |-> df[i].latitude, longitude |-> df[i].longitude,
         PM25_corrected |-> df[i].PM2_5]]

\* .dropna(subset=['PM2.5_corrected', 'latitude', 'longitude'])
DropNa(df) ==
    LET Keep(i) == df[i].PM25_corrected # NaN /\ df[i].latitude # NaN /\ df[i].longitude # NaN
    IN  SelectIdx(df, Keep, 1)

\* the frames load_and_prepare_data can return for the file content df
load_and_prepare_data(df) ==
    { DropNa(Rename(DropDuplicatesStation(sorted))) : sorted \in SortedByTime(df) }

SameLocation(r, q) == r.latitude = q.latitude /\ r.longitude = q.longitude

DropDuplicatesLocationNone(df) == df

\* .drop_duplicates(subset=['latitude', 'longitude'], keep='first')
DropDuplicatesLocation(df) ==
    LET Keep(i) == \A j \in 1..(i - 1) : ~SameLocation(df[j], df[i])
    IN  SelectIdx(df, Keep, 1)

-----------------------------------------------------------------------------
(* PollutionModel *)

\* sensor_data[['latitude', 'longitude']].values
PointsOf(df) == [i \in 1..Len(df) |-> <<df[i].latitude[1], df[i].longitude[1]>>]

\* sensor_data['PM2.5_corrected'].values
ValuesOf(df) == [i \in 1..Len(df) |-> df[i].PM25_corrected[1]]

IsEmptyNever(df) == FALSE

\* sensor_data.empty
IsEmpty(df) == Len(df) = 0

\* scipy's Rbf solves M.w = values; it raises on no nodes and on a singular M,
\* which is what two nodes at one location give
RbfFails(points) ==
    \/ Len(points) = 0
    \/ \E i, j \in 1..Len(points) : i < j /\ points[i] = points[j]

\* The fitted interpolator.  scipy's Rbf is a library outside the repository:
\* it is represented by its nodes and their values, and evaluated by a
\* deterministic stand-in that is exact at every node (the value of the
\* nearest node, the first on ties).
Rbf(points, values) == [fitted |-> TRUE, xi |-> points, di |-> values]

NoInterpolator == [fitted |-> FALSE, xi |-> <<>>, di |-> <<>>]

NoModel == [has |-> {}, points |-> <<>>, values |-> <<>>, interpolator |-> NoInterpolator]

\* squared distance from (lat, lon), rationals, to node p, over the common
\* denominator (lat[2] * lon[2])^2
Dist2(lat, lon, p) ==
    (lat[1] - p[1] * lat[2]) * (lat[1] - p[1] * lat[2]) * lon[2] * lon[2]
        + (lon[1] - p[2] * lon[2]) * (lon[1] - p[2] * lon[2]) * lat[2] * lat[2]

\* self.interpolator(lat, lon)
Evaluate(interp, lat, lon) ==
    LET n == Len(interp.xi)
        best == CHOOSE i \in 1..n :
                    /\ \A j \in 1..n : Dist2(lat, lon, interp.xi[i]) <= Dist2(lat, lon, interp.xi[j])
                    /\ \A j \in 1..(i - 1) : Dist2(lat, lon, interp.xi[j]) > Dist2(lat, lon, interp.xi[i])
    IN  interp.di[best]

\* what an access to pollution_model.predict finds
ModelState ==
    IF pollution_model = "unbound" THEN "unbound"
    ELSE IF model.has = {"points", "values", "interpolator"} THEN "complete"
    ELSE "partial"

-----------------------------------------------------------------------------
(* Module initialisation, app.py:52-57 (pollution_engine.py:59-75 has the   *)
(* same sequence).  phase is the statement about to run.                    *)

HandlerVars == <<pc, req, features, scored_routes, resp, observed>>
FrontVars == <<route_data, rendered>>
SampleVars == <<route_geometry, sampled_points>>
DataVars == <<csv, latest_df, sensor_data>>

\* sensor_data = load_and_prepare_data(AIR_QUALITY_FILE)
LoadData ==
    /\ phase = "load"
    /\ \E df \in load_and_prepare_data(csv) :
        /\ latest_df' = df
        /\ sensor_data' = df
    /\ phase' = "dedupe"
    /\ UNCHANGED <<csv, model, pollution_model, ors_api_key, HandlerVars, FrontVars, SampleVars>>

\* sensor_data.drop_duplicates(subset=['latitude', 'longitude'], keep='first', inplace=True)
DropDuplicates ==
    /\ phase = "dedupe"
    /\ sensor_data' = DropDuplicatesLocation(sensor_data)
    /\ phase' = "construct"
    /\ UNCHANGED <<csv, latest_df, model, pollution_model, ors_api_key, HandlerVars, FrontVars, SampleVars>>

\* PollutionModel.__init__: if sensor_data.empty: raise ValueError
InitCheckEmpty ==
    /\ phase = "construct"
    /\ phase' = IF IsEmpty(sensor_data) THEN "crashed" ELSE "init_points"
    /\ UNCHANGED <<DataVars, model, pollution_model, ors_api_key, HandlerVars, FrontVars, SampleVars>>

\* self.points = ...
InitPoints ==
    /\ phase = "init_points"
    /\ model' = [model EXCEPT !.has = @ \cup {"points"}, !.points = PointsOf(sensor_data)]
    /\ phase' = "init_values"
    /\ UNCHANGED <<DataVars, pollution_model, ors_api_key, HandlerVars, FrontVars, SampleVars>>

\* self.values = ...
InitValues ==
    /\ phase = "init_values"
    /\ model' = [model EXCEPT !.has = @ \cup {"values"}, !.values = ValuesOf(sensor_data)]
    /\ phase' = "init_fit"
    /\ UNCHANGED <<DataVars, pollution_model, ors_api_key, HandlerVars, FrontVars, SampleVars>>

\* self.interpolator = Rbf(...); an exception of Rbf leaves __init__
InitFit ==
    /\ phase = "init_fit"
    /\ IF RbfFails(model.points)
       THEN /\ phase' = "crashed"
            /\ UNCHANGED model
       ELSE /\ model' = [model EXCEPT !.has = @ \cup {"interpolator"},
                                      !.interpolator = Rbf(model.points, model.values)]
            /\ phase' = "publish"
    /\ UNCHANGED <<DataVars, pollution_model, ors_api_key, HandlerVars, FrontVars, SampleVars>>

\* pollution_model = <the instance __init__ returned>
Publish ==
    /\ phase = "publish"
    /\ pollution_model' = "bound"
    /\ phase' = "serving"
    /\ UNCHANGED <<DataVars, model, ors_api_key, HandlerVars, FrontVars, SampleVars>>

Startup == LoadData \/ DropDuplicates \/ InitCheckEmpty \/ InitPoints \/ InitValues \/ InitFit \/ Publish

\* Requests are served once the module has been imported: the routes are
\* registered and app.run is reached only after the initialisation code.
ServerAcceptingAlways == TRUE

ServerAccepting == phase = "serving"

-----------------------------------------------------------------------------
(* Requests and responses *)

None == <<>>

NoReq == [kind |-> "none", args |-> <<>>]

NoResp == [status |-> 0, error |-> "", fastest_route |-> <<>>, cleanest_route |-> <<>>,
           all_alternatives |-> <<>>, predicted |-> <<>>]

ErrorResp(code, msg) == [NoResp EXCEPT !.status = code, !.error = msg]

RouteArgNames == {"start_lon", "start_lat", "end_lon", "end_lat"}
PredictArgNames == {"lat", "lon"}

\* request.args.get(name, type=float): None when absent or not a number
ArgCells == {None, <<0>>, <<4>>}

\* Python truthiness of a parsed argument: None and 0.0 are false
Truthy(a) == a # None /\ a[1] # 0

AnyNone(args) == \E k \in DOMAIN args : args[k] = None

\* not all([start_lon, start_lat, end_lon, end_lat])
NotAll(args) == \E k \in DOMAIN args : ~Truthy(args[k])

-----------------------------------------------------------------------------
(* app.py: get_routes, scoring and selection *)

\* the value enumerate() gives the route at (1-based) position i
RouteIdConstant(i) == 0

RouteId(i) == i - 1

\* round(route['properties']['summary']['duration'] / 60, 2), in hundredths of a minute
DurationMin(duration) ==
    RoundHalfEven(duration * RoundDigitsScale, TicksPerSecond * SecondsPerMinute)

\* round(route['properties']['summary']['distance'] / 1000, 2), in hundredths of a km
DistanceKm(distance) == RoundHalfEven(distance * RoundDigitsScale, MetresPerKm)

\* [pollution_model.predict(lat, lon) for lat, lon in sampled_points]
PollutionScores(interp, pts) == [j \in 1..Len(pts) |-> Evaluate(interp, pts[j][1], pts[j][2])]

\* np.mean(pollution_scores) if pollution_scores else 0, as the rational <<sum, count>>
AvgPollution(scores) == IF Len(scores) = 0 THEN <<0, 1>> ELSE <<SumSeq(scores), Len(scores)>>

\* the dict appended to scored_routes for the route at position i
ScoredRoute(i, route, interp, pts) ==
    LET avg == AvgPollution(PollutionScores(interp, pts))
    IN  [id |-> RouteId(i),
         distance_km |-> DistanceKm(route.distance),
         duration_min |-> DurationMin(route.duration),
         avg_pm25 |-> RoundHalfEven(avg[1], avg[2]),
         geometry |-> route.geometry]

\* position of the element min(seq, key=Key) returns: the first of the least key
MinIndex(s, Key(_)) ==
    CHOOSE i \in 1..Len(s) :
        /\ \A j \in 1..Len(s) : Key(s[i]) <= Key(s[j])
        /\ \A j \in 1..(i - 1) : Key(s[j]) > Key(s[i])

KeyDuration(x) == x.duration_min
KeyPollution(x) == x.avg_pm25

FastestIndex(scored) == MinIndex(scored, KeyDuration)
CleanestIndex(scored) == MinIndex(scored, KeyPollution)

\* lines 117-127 without the guard: min() of an empty list raises ValueError,
\* which Flask answers with 500
SelectResponseUnguarded(scored) ==
    IF scored = <<>>
    THEN ErrorResp(500, "Internal Server Error")
    ELSE [NoResp EXCEPT !.status = 200,
                        !.fastest_route = <<scored[FastestIndex(scored)]>>,
                        !.cleanest_route = <<scored[CleanestIndex(scored)]>>,
                        !.all_alternatives = scored]

\* lines 117-127: the answer once every route is scored
SelectResponse(scored) ==
    IF scored = <<>>
    THEN ErrorResp(404, "No routes found between the specified points.")
    ELSE [NoResp EXCEPT !.status = 200,
                        !.fastest_route = <<scored[FastestIndex(scored)]>>,
                        !.cleanest_route = <<scored[CleanestIndex(scored)]>>,
                        !.all_alternatives = scored]

\* lines 77-87: the key and the arguments; a response ends the handler
RoutesStart(t, ArgSets) ==
    /\ ServerAccepting
    /\ pc[t] = "idle"
    /\ \E args \in ArgSets :
        /\ req' = [req EXCEPT ![t] = [kind |-> "routes", args |-> args]]
        /\ IF ~ors_api_key
           THEN /\ resp' = [resp EXCEPT ![t] =
                        ErrorResp(500, "API key for OpenRouteService not found in .env file.")]
                /\ pc' = [pc EXCEPT ![t] = "done"]
           ELSE IF NotAll(args)
           THEN /\ resp' = [resp EXCEPT ![t] = ErrorResp(400, "Missing start/end coordinates.")]
                /\ pc' = [pc EXCEPT ![t] = "done"]
           ELSE /\ resp' = resp
                /\ pc' = [pc EXCEPT ![t] = "fetch"]
    /\ UNCHANGED <<DataVars, model, pollution_model, phase, ors_api_key, features,
                   scored_routes, observed, FrontVars, SampleVars>>

\* lines 89-100: client.directions raises, or returns a feature collection
RoutesFetch(t, FeatureLists) ==
    /\ pc[t] = "fetch"
    /\ \/ /\ resp' = [resp EXCEPT ![t] = ErrorResp(500, "Error fetching routes from ORS")]
          /\ pc' = [pc EXCEPT ![t] = "done"]
          /\ UNCHANGED features
       \/ \E fl \in FeatureLists :
          /\ features' = [features EXCEPT ![t] = <<fl>>]
          /\ pc' = [pc EXCEPT ![t] = "score"]
          /\ UNCHANGED resp
    /\ UNCHANGED <<DataVars, model, pollution_model, phase, ors_api_key, req,
                   scored_routes, observed, FrontVars, SampleVars>>

\* lines 103-115: one iteration of the loop.  An exception of sample_route or
\* of predict is caught nowhere: it leaves get_routes and Flask answers 500.
RoutesScore(t) ==
    /\ pc[t] = "score"
    /\ Len(scored_routes[t]) < Len(features[t][1])
    /\ LET i == Len(scored_routes[t]) + 1
           route == features[t][1][i]
           sampled == sample_route(route.geometry)
       IN  IF sampled.err # "none"
           THEN /\ resp' = [resp EXCEPT ![t] = ErrorResp(500, "Internal Server Error")]
                /\ pc' = [pc EXCEPT ![t] = "done"]
                /\ UNCHANGED <<scored_routes, observed>>
           ELSE IF ModelState # "complete"
           THEN /\ resp' = [resp EXCEPT ![t] = ErrorResp(500, "Internal Server Error")]
                /\ pc' = [pc EXCEPT ![t] = "done"]
                /\ observed' = [observed EXCEPT ![t] = ModelState]
                /\ UNCHANGED scored_routes
           ELSE /\ scored_routes' = [scored_routes EXCEPT ![t] =
                        Append(@, ScoredRoute(i, route, model.interpolator, sampled.pts))]
                /\ observed' = [observed EXCEPT ![t] = ModelState]
                /\ UNCHANGED <<resp, pc>>
    /\ UNCHANGED <<DataVars, model, pollution_model, phase, ors_api_key, req, features,
                   FrontVars, SampleVars>>

\* lines 117-127
RoutesSelect(t) ==
    /\ pc[t] = "score"
    /\ Len(scored_routes[t]) = Len(features[t][1])
    /\ resp' = [resp EXCEPT ![t] = SelectResponse(scored_routes[t])]
    /\ pc' = [pc EXCEPT ![t] = "done"]
    /\ UNCHANGED <<DataVars, model, pollution_model, phase, ors_api_key, req, features,
                   scored_routes, observed, FrontVars, SampleVars>>

-----------------------------------------------------------------------------
(* app.py: predict_pollution *)

\* lines 68-71
PredictStart(t, ArgSets) ==
    /\ ServerAccepting
    /\ pc[t] = "idle"
    /\ \E args \in ArgSets :
        /\ req' = [req EXCEPT ![t] = [kind |-> "predict", args |-> args]]
        /\ IF AnyNone(args)
           THEN /\ resp' = [resp EXCEPT ![t] =
                        ErrorResp(400, "Please provide both lat and lon parameters.")]
                /\ pc' = [pc EXCEPT ![t] = "done"]
           ELSE /\ resp' = resp
                /\ pc' = [pc EXCEPT ![t] = "predict"]
    /\ UNCHANGED <<DataVars, model, pollution_model, phase, ors_api_key, features,
                   scored_routes, observed, FrontVars, SampleVars>>

\* lines 72-73
PredictCall(t) ==
    /\ pc[t] = "predict"
    /\ observed' = [observed EXCEPT ![t] = ModelState]
    /\ resp' = [resp EXCEPT ![t] =
            IF ModelState # "complete"
            THEN ErrorResp(500, "Internal Server Error")
            ELSE [NoResp EXCEPT !.status = 200,
                                !.predicted = <<Evaluate(model.interpolator,
                                                         RatOfInt(req[t].args["lat"][1]),
                                                         RatOfInt(req[t].args["lon"][1]))>>]]
    /\ pc' = [pc EXCEPT ![t] = "done"]
    /\ UNCHANGED <<DataVars, model, pollution_model, phase, ors_api_key, req, features,
                   scored_routes, FrontVars, SampleVars>>

\* the response leaves; the thread serves the next request
ClearThread(t) ==
    /\ pc' = [pc EXCEPT ![t] = "idle"]
    /\ req' = [req EXCEPT ![t] = NoReq]
    /\ features' = [features EXCEPT ![t] = None]
    /\ scored_routes' = [scored_routes EXCEPT ![t] = <<>>]
    /\ resp' = [resp EXCEPT ![t] = NoResp]
    /\ observed' = [observed EXCEPT ![t] = "none"]

Respond(t) ==
    /\ pc[t] = "done"
    /\ ClearThread(t)
    /\ UNCHANGED <<DataVars, model, pollution_model, phase, ors_api_key, FrontVars, SampleVars>>

-----------------------------------------------------------------------------
(* frontend.py *)

\* get_routes_from_api: raise_for_status turns every 4xx and 5xx answer into
\* a RequestException, st.error and None; otherwise response.json()
ApiResult(r) == IF r.status >= 400 THEN None ELSE <<r>>

\* lines 74-126: what the display section draws for session_state.route_data
Display(rd) ==
    IF rd = None THEN "info"
    ELSE IF rd[1].fastest_route # <<>>
    THEN IF rd[1].fastest_route[1].id = rd[1].cleanest_route[1].id
         THEN "single"      \* one purple 'Optimal Route'
         ELSE "two"         \* blue 'Fastest Route' and green 'Cleanest Route'
    ELSE IF rd[1].error # "" THEN "api_error"
    ELSE "nothing"

\* "Find Routes": the script run that calls the API with the coordinates of
\* two stations, stores the result and draws it
FindRoutes(t) ==
    /\ pc[t] = "done"
    /\ req[t].kind = "routes"
    /\ ~AnyNone(req[t].args)
    /\ route_data' = ApiResult(resp[t])
    /\ rendered' = Display(ApiResult(resp[t]))
    /\ ClearThread(t)
    /\ UNCHANGED <<DataVars, model, pollution_model, phase, ors_api_key, SampleVars>>

-----------------------------------------------------------------------------
(* Inputs *)

Vertices == (0..MaxLon) \X (0..MaxLat)

\* the polylines drawn for a direct call: every segment of integral length
RECURSIVE PolylinesUpTo(_)
PolylinesUpTo(n) ==
    IF n = 0 THEN {<<>>}
    ELSE LET shorter == PolylinesUpTo(n - 1)
             longest == { h \in shorter : Len(h) = n - 1 }
         IN  shorter \cup
             { gv \in { Append(g, v) : g \in longest, v \in Vertices } :
                 n = 1 \/ IntegralSeg(gv[n - 1], gv[n]) }

Polylines == PolylinesUpTo(MaxVertices)

\* geometries the routing provider is taken to return
RouteGeometries ==
    { << <<0, 0>>, <<4, 0>> >>,              \* length 4: samples at lon 0, 2, 4
      << <<0, 0>>, <<0, 3>> >>,              \* length 3: the two end points
      << <<0, 0>>, <<3, 0>>, <<3, 2>> >>,    \* length 5: a sample inside a segment
      << <<0, 0>>, <<1, 0>> >>,              \* shorter than the resolution
      << <<2, 1>> >> }                       \* a single vertex

Durations == {1500, 1501, 2250}              \* 300.0 s, 300.2 s, 450.0 s
Distances == {1500}

Routes == [geometry : RouteGeometries, distance : Distances, duration : Durations]

MaxRoutes == 3        \* most alternatives in one answer of the routing provider
MaxFrontRoutes == 2   \* the same, for the requests of the front end

FeatureLists == SeqsUpTo(Routes, MaxRoutes)

RouteArgSets == [RouteArgNames -> ArgCells]
PredictArgSets == [PredictArgNames -> ArgCells]

\* the dataset behind the serving specifications: station A twice, the later
\* reading last in the file or first, and station B
ServingCsv ==
    << [station_name |-> "A", local_time |-> 1, latitude |-> <<0>>, longitude |-> <<0>>, PM2_5 |-> <<900>>],
       [station_name |-> "B", local_time |-> 1, latitude |-> <<0>>, longitude |-> <<5>>, PM2_5 |-> <<1001>>],
       [station_name |-> "A", local_time |-> 2, latitude |-> <<0>>, longitude |-> <<0>>, PM2_5 |-> <<1000>>] >>

Threads == {1, 2}

IdleHandlers ==
    /\ pc = [t \in Threads |-> "idle"]
    /\ req = [t \in Threads |-> NoReq]
    /\ features = [t \in Threads |-> None]
    /\ scored_routes = [t \in Threads |-> <<>>]
    /\ resp = [t \in Threads |-> NoResp]
    /\ observed = [t \in Threads |-> "none"]

IdleFront == route_data = None /\ rendered = "info"

IdleSample == route_geometry = <<>> /\ sampled_points = [err |-> "pending", pts |-> <<>>]

NotStarted ==
    /\ latest_df = <<>>
    /\ sensor_data = <<>>
    /\ model = NoModel
    /\ pollution_model = "unbound"
    /\ phase = "load"

\* the instance __init__ leaves for the frame sd
ConstructedModel(sd) ==
    [has |-> {"points", "values", "interpolator"}, points |-> PointsOf(sd),
     values |-> ValuesOf(sd), interpolator |-> Rbf(PointsOf(sd), ValuesOf(sd))]

-----------------------------------------------------------------------------
(* Specifications *)

\* start-up followed by concurrent request threads
Init ==
    /\ csv = ServingCsv
    /\ NotStarted
    /\ ors_api_key = TRUE
    /\ IdleHandlers /\ IdleFront /\ IdleSample

ServeArgSets == { [k \in RouteArgNames |-> <<4>>] }
ServePredictArgSets == { [k \in PredictArgNames |-> <<0>>], [k \in PredictArgNames |-> None] }
ServeFeatureLists ==
    LET good == [geometry |-> << <<0, 0>>, <<4, 0>> >>, distance |-> 1500, duration |-> 1500]
    IN  { <<>>, <<good>>, <<good, good>> }

Next ==
    \/ Startup
    \/ \E t \in Threads :
        \/ RoutesStart(t, ServeArgSets)
        \/ RoutesFetch(t, ServeFeatureLists)
        \/ RoutesScore(t)
        \/ RoutesSelect(t)
        \/ PredictStart(t, ServePredictArgSets)
        \/ PredictCall(t)
        \/ Respond(t)

Spec == Init /\ [][Next]_vars

\* start-up alone, over every drawn dataset
InitData ==
    /\ csv \in SeqsUpTo(CsvRows, MaxRows)
    /\ NotStarted
    /\ ors_api_key = TRUE
    /\ IdleHandlers /\ IdleFront /\ IdleSample

SpecData == InitData /\ [][Startup]_vars

\* one /routes request at a time against the started server, and the front end
InitRoutes ==
    /\ csv = ServingCsv
    /\ \E df \in load_and_prepare_data(ServingCsv) :
        /\ latest_df = df
        /\ sensor_data = DropDuplicatesLocation(df)
        /\ model = ConstructedModel(DropDuplicatesLocation(df))
    /\ pollution_model = "bound"
    /\ phase = "serving"
    /\ ors_api_key \in BOOLEAN
    /\ IdleHandlers /\ IdleFront /\ IdleSample

NextRoutes ==
    \/ RoutesStart(1, RouteArgSets)
    \/ RoutesFetch(1, FeatureLists)
    \/ RoutesScore(1)
    \/ RoutesSelect(1)
    \/ Respond(1)

SpecRoutes == InitRoutes /\ [][NextRoutes]_vars

\* the front end's requests, which carry the coordinates of two stations
FrontGeometries ==
    { << <<0, 0>>, <<4, 0>> >>, << <<4, 0>>, <<4, 3>> >>, << <<0, 0>>, <<1, 0>> >> }
FrontDurations == {1500, 2250}
FrontFeatureLists ==
    SeqsUpTo([geometry : FrontGeometries, distance : Distances, duration : FrontDurations],
             MaxFrontRoutes)

NextFront ==
    \/ RoutesStart(1, ServeArgSets)
    \/ RoutesFetch(1, FrontFeatureLists)
    \/ RoutesScore(1)
    \/ RoutesSelect(1)
    \/ FindRoutes(1)

SpecFront == InitRoutes /\ [][NextFront]_vars

\* direct calls of sample_route
CallSampleRoute ==
    /\ sampled_points.err = "pending"
    /\ sampled_points' = sample_route(route_geometry)
    /\ UNCHANGED <<DataVars, model, pollution_model, phase, ors_api_key, HandlerVars,
                   FrontVars, route_geometry>>

InitSample ==
    /\ csv = <<>>
    /\ NotStarted
    /\ ors_api_key = TRUE
    /\ IdleHandlers /\ IdleFront
    /\ route_geometry \in Polylines
    /\ sampled_points = [err |-> "pending", pts |-> <<>>]

SpecSample == InitSample /\ [][CallSampleRoute]_vars

-----------------------------------------------------------------------------
(* Properties *)

\* the (latitude, longitude) pair sample_route emits for the vertex v = <<lon, lat>>
Emitted(v) == <<RatOfInt(v[2]), RatOfInt(v[1])>>

SampleCallDone == sampled_points.err # "pending"

\* C1: resampling a route of at least two vertices whose length is below the
\* resolution (n = 0) returns exactly its two end points, without an error.
C1_DegenerateYieldsEndpoints ==
    (SampleCallDone /\ Len(route_geometry) >= 2 /\ NumSamples(route_geometry) = 0)
        => /\ sampled_points.err = "none"
           /\ sampled_points.pts = << Emitted(route_geometry[1]),
                                      Emitted(route_geometry[Len(route_geometry)]) >>

\* p = <<lat, lon>> lies on the polyline at arc length (i/n) * L from its start:
\* on some segment k of positive length that spans that arc length, at the
\* matching fraction of the segment
AtArcFraction(line, p, i, n) ==
    LET L == LineLength(line)
    IN  \E k \in 1..(Len(line) - 1) :
            LET a == line[k]
                b == line[k + 1]
                l == SegLen(a, b)
                c == CumLength(line, k)
            IN  /\ l > 0
                /\ c * n <= i * L
                /\ i * L <= (c + l) * n
                /\ p[2][1] * n * l = p[2][2] * (a[1] * n * l + (i * L - c * n) * (b[1] - a[1]))
                /\ p[1][1] * n * l = p[1][2] * (a[2] * n * l + (i * L - c * n) * (b[2] - a[2]))

\* C2: for a polyline of at least two vertices with n = floor(L / 0.001) >= 1,
\* sample_route returns n + 1 points, point i at arc-length fraction i / n, the
\* first the start vertex and the last the end vertex, each as (lat, lon).
C2_SamplesAtFractions ==
    (SampleCallDone /\ Len(route_geometry) >= 2 /\ NumSamples(route_geometry) >= 1)
        => LET n == NumSamples(route_geometry)
               pts == sampled_points.pts
           IN  /\ sampled_points.err = "none"
               /\ Len(pts) = n + 1
               /\ pts[1] = Emitted(route_geometry[1])
               /\ pts[n + 1] = Emitted(route_geometry[Len(route_geometry)])
               /\ \A i \in 0..n : AtArcFraction(route_geometry, pts[i + 1], i, n)

\* a three-vertex route resampled into at least three points, one of them
\* strictly inside a grid cell
C2_Witness ==
    /\ SampleCallDone
    /\ Len(route_geometry) = 3
    /\ route_geometry[1][1] # route_geometry[1][2]
    /\ NumSamples(route_geometry) >= 2
    /\ sampled_points.err = "none"
    /\ \E j \in 1..Len(sampled_points.pts) : sampled_points.pts[j][2][2] > 1

RoutesAnswered(t) == pc[t] = "done" /\ req[t].kind = "routes"

\* the unrounded mean of the predictions along a route, <<sum, count>>
RawAvgPollution(route) ==
    AvgPollution(PollutionScores(model.interpolator, sample_route(route.geometry).pts))

RatLess(a, b) == a[1] * b[2] < b[1] * a[2]

FirstMinDuration(fl) ==
    CHOOSE i \in 1..Len(fl) :
        /\ \A j \in 1..Len(fl) : fl[i].duration <= fl[j].duration
        /\ \A j \in 1..(i - 1) : fl[j].duration > fl[i].duration

FirstMinPollution(fl) ==
    CHOOSE i \in 1..Len(fl) :
        /\ \A j \in 1..Len(fl) : ~RatLess(RawAvgPollution(fl[j]), RawAvgPollution(fl[i]))
        /\ \A j \in 1..(i - 1) : RatLess(RawAvgPollution(fl[i]), RawAvgPollution(fl[j]))

\* C3: the route returned as fastest is the first in input order of least
\* duration, the route returned as cleanest the first of least mean pollution.
C3_FastestAndCleanestAreFirstMinima ==
    (RoutesAnswered(1) /\ resp[1].status = 200)
        => /\ resp[1].fastest_route[1].id = RouteId(FirstMinDuration(features[1][1]))
           /\ resp[1].cleanest_route[1].id = RouteId(FirstMinPollution(features[1][1]))

\* C4: when the routing provider returns no candidate, /routes selects nothing
\* and answers 404 with an error body.
C4_EmptyCandidatesAnswer404 ==
    (RoutesAnswered(1) /\ features[1] = << <<>> >>)
        => /\ resp[1].status = 404
           /\ resp[1].error # ""
           /\ resp[1].fastest_route = None
           /\ resp[1].cleanest_route = None

C4_Witness ==
    RoutesAnswered(1) /\ features[1] = << <<>> >> /\ resp[1].status = 404

Samplable(route) == sample_route(route.geometry).err = "none"

\* C5: a candidate that fails in sampling rejects only itself: every other
\* candidate of the batch is scored and offered.
C5_FailureRejectsOnlyThatCandidate ==
    (RoutesAnswered(1) /\ features[1] # None)
        => \A i \in 1..Len(features[1][1]) :
              Samplable(features[1][1][i])
                  => /\ resp[1].status = 200
                     /\ \E k \in 1..Len(resp[1].all_alternatives) :
                            resp[1].all_alternatives[k].id = RouteId(i)

ConstructionOver == phase \in {"crashed", "init_points", "init_values", "init_fit", "publish", "serving"}

\* C6: constructing a PollutionModel from an empty sample set fails before any
\* of points, values and interpolator is set, and the model is never bound.
C6_EmptyConstructionFails ==
    (ConstructionOver /\ Len(sensor_data) = 0)
        => /\ phase = "crashed"
           /\ model = NoModel
           /\ pollution_model = "unbound"

\* a file with rows, none of which survives, so that construction fails
C6_Witness ==
    phase = "crashed" /\ Len(csv) > 0 /\ sensor_data = <<>> /\ model.has = {}

\* C7: every predict call finds a completely constructed model, and no step
\* taken while requests are served changes the model or its binding.
C7_ReadersSeeCompleteModel ==
    /\ [](\A t \in Threads : observed[t] \in {"none", "complete"})
    /\ [][phase = "serving" => (model' = model /\ pollution_model' = pollution_model)]_vars

\* a /predict and a /routes request in flight together, both having read the model
C7_Witness ==
    /\ req[1].kind = "routes" /\ pc[1] = "score" /\ observed[1] = "complete"
    /\ req[2].kind = "predict" /\ pc[2] = "done" /\ observed[2] = "complete"

\* fastest and cleanest are the same candidate of the answer r
SameCandidate(r) == FastestIndex(r.all_alternatives) = CleanestIndex(r.all_alternatives)

Consistent(r) ==
    /\ r.fastest_route[1] = r.all_alternatives[FastestIndex(r.all_alternatives)]
    /\ r.cleanest_route[1] = r.all_alternatives[CleanestIndex(r.all_alternatives)]
    /\ SameCandidate(r) <=> (r.fastest_route[1].id = r.cleanest_route[1].id)

\* C8: when fastest and cleanest are the same candidate their ids are equal
\* and the front end draws one optimal route; when they are different
\* candidates the ids differ and it draws two routes.
C8_SameCandidateIffOneRouteDrawn ==
    /\ (RoutesAnswered(1) /\ resp[1].status = 200) => Consistent(resp[1])
    /\ route_data = None => rendered = "info"
    /\ route_data # None
        => /\ Consistent(route_data[1])
           /\ SameCandidate(route_data[1]) => rendered = "single"
           /\ ~SameCandidate(route_data[1]) => rendered = "two"
           /\ Len(route_data[1].all_alternatives) = 1 => rendered = "single"

\* two alternatives, the second the fastest and the first the cleanest
C8_Witness ==
    /\ route_data # None
    /\ rendered = "two"
    /\ route_data[1].fastest_route[1].id = 1
    /\ route_data[1].cleanest_route[1].id = 0

C8_WitnessSingle ==
    /\ route_data # None
    /\ rendered = "single"
    /\ Len(route_data[1].all_alternatives) = 2
    /\ route_data[1].fastest_route[1].id = 1

DedupeOver == phase \notin {"load", "dedupe"}

LocationsOf(df) == { <<df[i].latitude, df[i].longitude>> : i \in 1..Len(df) }

\* C9: the samples handed to the constructor hold no two rows of one
\* location: of the rows load_and_prepare_data returned (one per station,
\* none with a missing value) exactly the first of each location is kept, in
\* the same order.
C9_OneSamplePerLocation ==
    DedupeOver
        => /\ \A i, j \in 1..Len(sensor_data) :
                  SameLocation(sensor_data[i], sensor_data[j]) => i = j
           /\ Len(sensor_data) = Cardinality(LocationsOf(latest_df))
           /\ \A i \in 1..Len(sensor_data) :
                  \E k \in 1..Len(latest_df) :
                      /\ sensor_data[i] = latest_df[k]
                      /\ \A m \in 1..(k - 1) : ~SameLocation(latest_df[m], latest_df[k])
           /\ \A i, j \in 1..Len(sensor_data) : \A k, m \in 1..Len(latest_df) :
                  (i < j /\ sensor_data[i] = latest_df[k] /\ sensor_data[j] = latest_df[m]) => k < m
           /\ \A i \in 1..Len(latest_df) :
                  /\ NaN \notin {latest_df[i].latitude, latest_df[i].longitude, latest_df[i].PM25_corrected}
                  /\ \A j \in 1..Len(latest_df) :
                        latest_df[i].station_name = latest_df[j].station_name => i = j
           /\ ("points" \in model.has) => model.points = PointsOf(sensor_data)

\* two stations at one location: the constructor is handed the first only
C9_Witness ==
    /\ phase = "init_points"
    /\ Len(latest_df) = 2
    /\ Len(sensor_data) = 1
    /\ sensor_data[1] = latest_df[1]

\* C10: /routes answers 'Missing start/end coordinates.' only when one of the
\* four arguments is absent or not a number.
C10_MissingOnlyWhenAbsent ==
    (RoutesAnswered(1) /\ resp[1].error = "Missing start/end coordinates.")
        => AnyNone(req[1].args)

====
